---- MODULE Spec2Model ----
(***************************************************************************)
(* Model of CompositeModel (src/newmodel.py): the mapping of a flat theta  *)
(* vector onto the named parameter arrays of the model (set_parameters)    *)
(* and the gradient of the log-probability (lnprob_grad).                  *)
(*                                                                         *)
(* Arrays are modelled with their storage: an array either owns its data   *)
(* (base = "own") or is a view onto the caller's theta vector              *)
(* (base = "theta"), so that copying and aliasing are distinguishable.     *)
(***************************************************************************)
EXTENDS Integers, Sequences, FiniteSets

\* Longest theta vector, and the largest end of a descriptor range.
MaxLen == 3

\* Values of the entries of theta.
Vals == {1, 2}

\* Parameter names a descriptor may hold.
Names == {"mass", "dust"}

VARIABLES
    theta_desc,   \* self.theta_desc: name -> [i0, N]
    jitter,       \* self.jitter
    theta,        \* the caller's vector handed to the last call, while the caller holds it
    params,       \* the arrays of self.params written by set_parameters
    aux,          \* the other keys of self.params
    last_op,      \* the last call, or write in place into an array, and where it wrote
    again,        \* whether the last operation ran set_parameters on a store written before
    result,       \* how the last call, if last_op is one, ended: returned or raised
    frame         \* the local variables of the last lnprob_grad call at its exit

vars == <<theta_desc, jitter, theta, params, aux, last_op, again, result, frame>>

Min(a, b) == IF a < b THEN a ELSE b
Max(a, b) == IF a > b THEN a ELSE b

\* ------------------------------------------------------------------------
\* Descriptors and theta vectors

Ranges == {r \in [i0 : 0 .. MaxLen - 1, N : 1 .. MaxLen] : r.i0 + r.N <= MaxLen}

\* No two ranges of descriptor d share an index of theta.
NonOverlapping(d) ==
    \A p, q \in DOMAIN d :
        p # q => (d[p].i0 + d[p].N <= d[q].i0 \/ d[q].i0 + d[q].N <= d[p].i0)

\* The descriptors a model is constructed with: ranges that do not overlap
\* (they need not cover a whole vector).
Descs == {d \in UNION {[S -> Ranges] : S \in SUBSET Names} : NonOverlapping(d)}

Thetas == UNION {[1 .. n -> Vals] : n \in 0 .. MaxLen}

\* ------------------------------------------------------------------------
\* Arrays

\* theta[start:end] for 0 <= start, end: the bounds are clipped to the length.
PySlice(len, start, end) ==
    LET lo == Min(start, len)
        hi == Min(end, len)
    IN  [base |-> "theta", off |-> lo, len |-> Max(0, hi - lo), data |-> <<>>]

\* numpy.asarray: no copy is made of an array, the result shares its storage.
np_asarray(a, th) == a

\* numpy.array(a): a new array owning a copy of a's elements.
np_array(a, th) ==
    [base |-> "own", off |-> 0, len |-> a.len,
     data |-> [k \in 1 .. a.len |-> th[a.off + k]]]

\* The elements of array a, read through to theta when a is a view onto it.
Elements(a, th) ==
    IF a.base = "own" THEN a.data
    ELSE [k \in 1 .. a.len |-> th[a.off + k]]

\* The parameter store by content.
Store(prm, th) == [p \in DOMAIN prm |-> Elements(prm[p], th)]

\* ------------------------------------------------------------------------
\* set_parameters

SliceStart(d) == d.i0

\* The end index computed without the offset.
SliceEndNoOffset(d) == d.N

SliceEnd(d) == d.i0 + d.N

\* A store that appends the new slice to the array already held.
set_parameters_append(prm, th, desc) ==
    [p \in DOMAIN prm \cup DOMAIN desc |->
        IF p \in DOMAIN desc
        THEN LET new == np_array(PySlice(Len(th), SliceStart(desc[p]), SliceEnd(desc[p])), th)
                 old == IF p \in DOMAIN prm THEN Elements(prm[p], th) ELSE <<>>
             IN  [base |-> "own", off |-> 0, len |-> Len(old) + new.len,
                  data |-> old \o new.data]
        ELSE prm[p]]

\* The arrays of self.params after the loop of set_parameters.
set_parameters(prm, th, desc) ==
    [p \in DOMAIN prm \cup DOMAIN desc |->
        IF p \in DOMAIN desc
        THEN np_array(PySlice(Len(th), SliceStart(desc[p]), SliceEnd(desc[p])), th)
        ELSE prm[p]]

\* The keys of self.params that are not written from theta, after __init__.
InitAux == {"tage", "zmet", "dust_curve"}

\* self.params['imf_type'] = 2
SetImfType(a) == a \cup {"imf_type"}

\* ------------------------------------------------------------------------
\* Numbers and numpy arrays of lnprob_grad

\* Most wavelength bins and most filters of an observation.
MaxWave == 1
MaxFilt == 1

\* Values of the per-component spectra, and of the per-component photometry.
CompSpecVals == {1}
CompPhotVals == {2}

\* Values of the observed spectrum and of its uncertainty.
SpecVals == {3, 5}
UncVals == {1}

\* Observed magnitudes in tenths of a magnitude, and their uncertainties in
\* units of 1.086 mag.
MagVals == {0, -25}
MagUncVals == {1}

\* Values self.jitter is set to: the int 0 of __init__, the int 1 and the
\* float 0.0 (a zero that is not the object 0).
IntZero == [int |-> TRUE, v |-> 0]
JitterVals == {IntZero, [int |-> TRUE, v |-> 1], [int |-> FALSE, v |-> 0]}

\* Values the caller stores under self.params['jitter'].
JitterParamVals == {0}

\* self.jitter is not 0: an identity test, true of every object but the int 0.
IsNot0(j) == ~(j.int /\ j.v = 0)

Abs(x) == IF x < 0 THEN -x ELSE x

RECURSIVE Gcd(_, _)
Gcd(a, b) == IF b = 0 THEN a ELSE Gcd(b, a % b)

\* The quotient n / d (d # 0) in lowest terms.
Rat(n, d) ==
    LET g == Gcd(Abs(n), Abs(d))
        s == IF d < 0 THEN -1 ELSE 1
    IN  [n |-> (s * n) \div g, d |-> (s * d) \div g]

RAdd(x, y) == Rat(x.n * y.d + y.n * x.d, x.d * y.d)

RScale(x, k) == Rat(x.n * k, x.d)

RZero == Rat(0, 1)

RECURSIVE ISum(_)
ISum(xs) == IF xs = <<>> THEN 0 ELSE Head(xs) + ISum(Tail(xs))

\* numpy broadcasting of two axes of lengths m and n.
CanBroadcast(m, n) == m = n \/ m = 1 \/ n = 1
BroadcastLen(m, n) == IF m = 1 THEN n ELSE m

\* Element j of a one-dimensional array stretched along a broadcast axis.
Pick(a, j) == IF Len(a) = 1 THEN a[1] ELSE a[j]

\* A two-dimensional array of nr rows and nc columns.
Arrays2(nr, nc, V) == {[nr |-> nr, nc |-> nc, at |-> f] : f \in [1 .. nr -> [1 .. nc -> V]]}

\* (A * v).sum(axis = 0): v is aligned with the LAST axis of A (the columns),
\* as numpy broadcasts a one-dimensional operand.
MulSumAxis0(A, v) ==
    [j \in 1 .. BroadcastLen(A.nc, Len(v)) |->
        ISum([c \in 1 .. A.nr |-> (IF A.nc = 1 THEN A.at[c][1] ELSE A.at[c][j]) * Pick(v, j)])]

\* 10**(-0.4 * mag) for a magnitude given in tenths.
Flux(m10) == CASE m10 = 0 -> 1 [] m10 = -25 -> 10

\* ------------------------------------------------------------------------
\* Observations and the synthesis engine

WaveParts ==
    {[has |-> FALSE, n |-> 0, spectrum |-> <<>>, unc |-> <<>>, mask |-> <<>>]}
    \cup UNION {{[has |-> TRUE, n |-> n, spectrum |-> s, unc |-> u, mask |-> m] :
                    s \in [1 .. n -> SpecVals], u \in [1 .. n -> UncVals],
                    m \in [1 .. n -> BOOLEAN]} : n \in 1 .. MaxWave}

FiltParts ==
    {[has |-> FALSE, n |-> 0, mags |-> <<>>, mags_unc |-> <<>>]}
    \cup UNION {{[has |-> TRUE, n |-> n, mags |-> g, mags_unc |-> u] :
                    g \in [1 .. n -> MagVals], u \in [1 .. n -> MagUncVals]} :
                        n \in 1 .. MaxFilt}

\* self.obs: 'wavelength' (None when has is FALSE), 'spectrum', 'unc', 'mask',
\* and 'filters' (None when has is FALSE), 'mags', 'mags_unc'.
Observations == [wave : WaveParts, filt : FiltParts]

NoObs == [wave |-> [has |-> FALSE, n |-> 0, spectrum |-> <<>>, unc |-> <<>>, mask |-> <<>>],
          filt |-> [has |-> FALSE, n |-> 0, mags |-> <<>>, mags_unc |-> <<>>]]

NoArray2 == [nr |-> 0, nc |-> 0, at |-> <<>>]

\* sps.get_components: one row per component (per element of params['mass']);
\* the spectra on the observation's wavelength grid, or on a grid of the
\* engine's own when there is none; the photometry in the observation's filters.
get_components(mass, obs) ==
    {[spec |-> cs, phot |-> cp] :
        cs \in UNION {Arrays2(Len(mass), nc, CompSpecVals) :
                        nc \in IF obs.wave.has THEN {obs.wave.n} ELSE 1 .. MaxWave},
        cp \in Arrays2(Len(mass), obs.filt.n, CompPhotVals)}

\* self.lnp_prior_grad(theta) of the parent class: a vector of len(theta)
\* entries, zero where no prior gradient is defined.
lnp_prior_grad(th) == [k \in 1 .. Len(th) |-> RZero]

\* ------------------------------------------------------------------------
\* lnprob_grad

RECURSIVE RSumOver(_, _)
\* The sum of f[j] over the indices j of S.
RSumOver(f, S) ==
    IF S = {} THEN RZero
    ELSE LET j == CHOOSE x \in S : TRUE
         IN  RAdd(f[j], RSumOver(f, S \ {j}))

\* self.theta_desc.keys() == ['mass']: a list compares equal to the list of
\* keys (Python 2); a keys view (Python 3) never compares equal to a list.
KeysEqualMassList(desc, keys_is_list) == keys_is_list /\ DOMAIN desc = {"mass"}

\* Lines 40-42: the error the check of the descriptor raises, or "none".
Precondition(desc, th, keys_is_list) ==
    IF "mass" \notin DOMAIN desc THEN "KeyError:mass"
    ELSE IF ~(Len(th) = desc["mass"].N /\ KeysEqualMassList(desc, keys_is_list))
         THEN "ValueError:unsupported"
         ELSE "none"

\* Lines 50-63. defined: whether gradp_spec and gradp_jitter were assigned
\* (they are when line 63 raises); grad: gradp_spec['mass'].
SpectroscopyTerms(obs, prm, keys, th, jit, spec, cs) ==
    LET w == obs.wave
        none == [err |-> "none", line |-> 0, defined |-> FALSE, grad |-> <<>>]
    IN
    IF ~w.has THEN none
    ELSE IF "jitter" \notin keys
    THEN [none EXCEPT !.err = "KeyError:jitter", !.line = 52]
    ELSE
    LET jarr == Elements(prm["jitter"], th)
        lv == BroadcastLen(Len(jarr), w.n)
        total_var == [j \in 1 .. lv |->
                        (Pick(w.unc, j) + Pick(jarr, j) * Pick(w.spectrum, j))
                        * (Pick(w.unc, j) + Pick(jarr, j) * Pick(w.spectrum, j))]
        lp == BroadcastLen(BroadcastLen(Len(spec), w.n), lv)
        spec_part == [j \in 1 .. lp |->
                        Rat(-(Pick(spec, j) - Pick(w.spectrum, j)), Pick(total_var, j))]
        lg == BroadcastLen(lp, cs.nc)
        grad == [c \in 1 .. cs.nr |->
                    RSumOver([j \in 1 .. lg |->
                                 RScale(Pick(spec_part, j),
                                        IF cs.nc = 1 THEN cs.at[c][1] ELSE cs.at[c][j])],
                             {j \in 1 .. lg : w.mask[j]})]
    IN
    IF ~CanBroadcast(Len(jarr), w.n)
    THEN [none EXCEPT !.err = "ValueError:broadcast", !.line = 52]
    ELSE IF ~(CanBroadcast(Len(spec), w.n) /\ CanBroadcast(BroadcastLen(Len(spec), w.n), lv))
    THEN [none EXCEPT !.err = "ValueError:broadcast", !.line = 57]
    ELSE IF ~CanBroadcast(lp, cs.nc)
    THEN [none EXCEPT !.err = "ValueError:broadcast", !.line = 58]
    ELSE IF Len(w.mask) # lg
    THEN [none EXCEPT !.err = "IndexError:mask", !.line = 58]
    ELSE IF IsNot0(jit)
    THEN [err |-> "ValueError:jitter", line |-> 63, defined |-> TRUE, grad |-> grad]
    ELSE [err |-> "none", line |-> 0, defined |-> TRUE, grad |-> grad]

\* Lines 66-71. defined: whether gradp_phot holds 'mass'.
PhotometryTerms(obs, phot, cp) ==
    LET f == obs.filt
        none == [err |-> "none", line |-> 0, defined |-> FALSE, grad |-> <<>>]
        flux == [k \in 1 .. f.n |-> Flux(f.mags[k])]
        phot_var == [k \in 1 .. f.n |->
                        (flux[k] * f.mags_unc[k]) * (flux[k] * f.mags_unc[k])]
        lp == BroadcastLen(Len(phot), f.n)
        phot_part == [j \in 1 .. lp |->
                        Rat(-(Pick(phot, j) - Pick(flux, j)), Pick(phot_var, j))]
        lg == BroadcastLen(lp, cp.nc)
        grad == [c \in 1 .. cp.nr |->
                    RSumOver([j \in 1 .. lg |->
                                 RScale(Pick(phot_part, j),
                                        IF cp.nc = 1 THEN cp.at[c][1] ELSE cp.at[c][j])],
                             1 .. lg)]
    IN
    IF ~f.has THEN none
    ELSE IF ~CanBroadcast(Len(phot), f.n)
    THEN [none EXCEPT !.err = "ValueError:broadcast", !.line = 70]
    ELSE IF ~CanBroadcast(lp, cp.nc)
    THEN [none EXCEPT !.err = "ValueError:broadcast", !.line = 71]
    ELSE [err |-> "none", line |-> 0, defined |-> TRUE, grad |-> grad]

\* An update that leaves out the offset: gradp[0:N] += g.
AddIntoNoOffset(gradp, a, g) ==
    [k \in 1 .. Len(gradp) |->
        IF k <= a.len THEN RAdd(gradp[k], Pick(g, k)) ELSE gradp[k]]

\* gradp[start:stop] += g: g is stretched to the slice when it has one element.
AddInto(gradp, a, g) ==
    [k \in 1 .. Len(gradp) |->
        IF a.off < k /\ k <= a.off + a.len
        THEN RAdd(gradp[k], Pick(g, k - a.off))
        ELSE gradp[k]]

CanAddInto(a, g) == Len(g) = a.len \/ Len(g) = 1

\* Lines 74-82, for the descriptor {'mass'} the check of line 40 lets through.
SumGradients(desc, th, sp, ph) ==
    LET a == PySlice(Len(th), SliceStart(desc["mass"]), SliceEnd(desc["mass"]))
        g0 == lnp_prior_grad(th)
        g1 == AddInto(g0, a, sp.grad)
        g2 == IF ph.defined THEN AddInto(g1, a, ph.grad) ELSE g1
    IN
    IF ~sp.defined
    THEN [err |-> "NameError:gradp_spec", line |-> 74, grad |-> <<>>]
    ELSE IF ~CanAddInto(a, sp.grad) \/ (ph.defined /\ ~CanAddInto(a, ph.grad))
    THEN [err |-> "ValueError:broadcast", line |-> 80, grad |-> <<>>]
    ELSE [err |-> "none", line |-> 82, grad |-> g2]

NoFrame ==
    [read |-> FALSE, keys_is_list |-> FALSE, line |-> 0, obs |-> NoObs,
     comp_spec |-> NoArray2, comp_phot |-> NoArray2, mass |-> <<>>,
     spec |-> <<>>, phot |-> <<>>, gradp_spec |-> <<>>, gradp_phot |-> <<>>]

\* Lines 44-82 with the parameters already set (prm, keys): how the call ends
\* and the local variables it then holds.
GradBody(prm, keys, desc, jit, th, obs, comps) ==
    LET mass == Elements(prm["mass"], th)
        cs == comps.spec
        cp == comps.phot
        spec == MulSumAxis0(cs, mass)
        phot == MulSumAxis0(cs, mass)
        fr0 == [NoFrame EXCEPT !.read = TRUE, !.obs = obs, !.comp_spec = cs,
                               !.comp_phot = cp, !.mass = mass]
        fr1 == [fr0 EXCEPT !.spec = spec, !.phot = phot]
        sp == SpectroscopyTerms(obs, prm, keys, th, jit, spec, cs)
        fr2 == [fr1 EXCEPT !.gradp_spec = sp.grad]
        ph == PhotometryTerms(obs, phot, cp)
        fr3 == [fr2 EXCEPT !.gradp_phot = ph.grad]
        sm == SumGradients(desc, th, sp, ph)
    IN
    IF ~CanBroadcast(cs.nc, Len(mass))
    THEN [result |-> [err |-> "ValueError:broadcast", grad |-> <<>>],
          frame |-> [fr0 EXCEPT !.line = 46]]
    ELSE IF sp.err # "none"
    THEN [result |-> [err |-> sp.err, grad |-> <<>>],
          frame |-> [fr2 EXCEPT !.line = sp.line]]
    ELSE IF ph.err # "none"
    THEN [result |-> [err |-> ph.err, grad |-> <<>>],
          frame |-> [fr2 EXCEPT !.line = ph.line]]
    ELSE [result |-> [err |-> sm.err, grad |-> sm.grad],
          frame |-> [fr3 EXCEPT !.line = sm.line]]

\* ------------------------------------------------------------------------
\* The model and its operations

Returned == [err |-> "none", grad |-> <<>>]

Init ==
    /\ theta_desc \in Descs
    /\ jitter = IntZero
    /\ theta = <<>>
    /\ params = <<>>
    /\ aux = InitAux
    /\ last_op = [op |-> "init", idx |-> 0, key |-> ""]
    /\ again = FALSE
    /\ result = Returned
    /\ frame = NoFrame

\* A call starts once the caller has taken the outcome of the last
\* lnprob_grad call (Collect).
SetParameters ==
    \E th \in Thetas :
        /\ last_op.op # "lnprob_grad"
        /\ theta' = th
        /\ params' = set_parameters(params, th, theta_desc)
        /\ aux' = SetImfType(aux)
        /\ last_op' = [op |-> "set_parameters", idx |-> 0, key |-> ""]
        /\ again' = ("imf_type" \in aux)
        /\ result' = Returned
        /\ UNCHANGED <<theta_desc, jitter, frame>>

\* The caller writes an element of its theta vector in place.
MutateTheta ==
    \E i \in 1 .. Len(theta), v \in Vals :
        /\ v # theta[i]
        /\ theta' = [theta EXCEPT ![i] = v]
        /\ last_op' = [op |-> "mutate_theta", idx |-> i, key |-> ""]
        /\ result' = Returned
        /\ again' = FALSE
        /\ UNCHANGED <<theta_desc, jitter, params, aux, frame>>

\* The caller writes an element of a stored array in place.
MutateStored ==
    \E p \in DOMAIN params :
        \E k \in 1 .. params[p].len, v \in Vals :
            /\ v # Elements(params[p], theta)[k]
            /\ IF params[p].base = "own"
               THEN /\ params' = [params EXCEPT ![p].data[k] = v]
                    /\ theta' = theta
               ELSE /\ theta' = [theta EXCEPT ![params[p].off + k] = v]
                    /\ params' = params
            /\ last_op' = [op |-> "mutate_stored", idx |-> 0, key |-> ""]
            /\ result' = Returned
            /\ again' = FALSE
            /\ UNCHANGED <<theta_desc, jitter, aux, frame>>

\* model(theta, sps): set_parameters, then sps.get_spectrum on self.params and
\* self.obs, whose outputs are returned as they are. With sps None (the
\* default) the attribute lookup raises once the parameters are set. The
\* engine is handed the dict itself and is taken not to write it.
Model ==
    \E th \in Thetas, has_sps \in BOOLEAN :
        /\ last_op.op # "lnprob_grad"
        /\ theta' = th
        /\ params' = set_parameters(params, th, theta_desc)
        /\ aux' = SetImfType(aux)
        /\ last_op' = [op |-> "model", idx |-> 0, key |-> ""]
        /\ again' = ("imf_type" \in aux)
        /\ result' = IF has_sps THEN Returned
                     ELSE [err |-> "AttributeError:get_spectrum", grad |-> <<>>]
        /\ UNCHANGED <<theta_desc, jitter, frame>>

Next == SetParameters \/ Model \/ MutateTheta \/ MutateStored

Spec == Init /\ [][Next]_vars

\* No outcome of a call is waiting for the caller to take it.
Idle == last_op.op \in {"init", "collect"}

\* lnprob_grad(theta, sps). With sps None (the default) line 45 raises once
\* the parameters are set.
LnprobGrad ==
    \E th \in Thetas, kl \in BOOLEAN :
        LET pre == Precondition(theta_desc, th, kl)
        IN
        /\ Idle
        /\ theta' = th
        /\ last_op' = [op |-> "lnprob_grad", idx |-> 0, key |-> ""]
        /\ IF pre # "none"
           THEN /\ result' = [err |-> pre, grad |-> <<>>]
                /\ frame' = [NoFrame EXCEPT !.keys_is_list = kl,
                                           !.line = IF pre = "KeyError:mass" THEN 40 ELSE 42]
                /\ again' = FALSE
                /\ UNCHANGED <<params, aux>>
           ELSE LET prm == set_parameters(params, th, theta_desc)
                    ax == SetImfType(aux)
                IN  /\ params' = prm
                    /\ aux' = ax
                    /\ again' = ("imf_type" \in aux)
                    /\ \/ /\ result' = [err |-> "AttributeError:get_components", grad |-> <<>>]
                          /\ frame' = [NoFrame EXCEPT !.keys_is_list = kl, !.line = 45]
                       \/ \E obs \in Observations :
                            \E comps \in get_components(Elements(prm["mass"], th), obs) :
                              LET out == GradBody(prm, DOMAIN prm \cup ax, theta_desc,
                                                  jitter, th, obs, comps)
                              IN  /\ result' = out.result
                                  /\ frame' = [out.frame EXCEPT !.keys_is_list = kl]
        /\ UNCHANGED <<theta_desc, jitter>>

\* The calls are synchronous: the caller takes what a call returned or
\* raised and lets go of its vector, and the locals of the call are gone,
\* before it calls lnprob_grad.
Collect ==
    /\ last_op.op \in {"lnprob_grad", "set_parameters", "model"}
    /\ last_op' = [op |-> "collect", idx |-> 0, key |-> ""]
    /\ result' = Returned
    /\ frame' = NoFrame
    /\ theta' = <<>>
    /\ again' = FALSE
    /\ UNCHANGED <<theta_desc, jitter, params, aux>>

\* The caller sets self.jitter.
ConfigureJitter ==
    \E j \in JitterVals :
        /\ Idle
        /\ j # jitter
        /\ jitter' = j
        /\ UNCHANGED <<theta_desc, theta, params, aux, last_op, again, result, frame>>

\* The caller stores a scalar under self.params['jitter'], the key line 52
\* reads and no method of the class writes. set_parameters leaves it in place.
ConfigureParamsJitter ==
    \E v \in JitterParamVals :
        /\ Idle
        /\ IF "jitter" \in DOMAIN params THEN params["jitter"].data # <<v>> ELSE TRUE
        /\ params' = [p \in DOMAIN params \cup {"jitter"} |->
                         IF p = "jitter"
                         THEN [base |-> "own", off |-> 0, len |-> 1, data |-> <<v>>]
                         ELSE params[p]]
        /\ UNCHANGED <<theta_desc, jitter, theta, aux, last_op, again, result, frame>>

GradNext ==
    \/ SetParameters \/ Model \/ LnprobGrad
    \/ Collect \/ ConfigureJitter \/ ConfigureParamsJitter

GradSpec == Init /\ [][GradNext]_vars

\* ------------------------------------------------------------------------
\* Properties of set_parameters

RECURSIVE SumLengths(_, _)
SumLengths(d, S) ==
    IF S = {} THEN 0
    ELSE LET p == CHOOSE x \in S : TRUE
         IN  d[p].N + SumLengths(d, S \ {p})

\* The sum of the descriptor lengths.
TotalLength(d) == SumLengths(d, DOMAIN d)

\* theta covers every range of the descriptor.
Covers(d, th) == \A p \in DOMAIN d : d[p].i0 + d[p].N <= Len(th)

\* set_parameters has just run, called directly or by model().
StoreJustSet == last_op.op \in {"set_parameters", "model"}

\* C2: set_parameters fails with ShapeMismatch whenever theta does not cover
\* every range of the descriptor (so whenever len(theta) is below the sum of
\* the lengths), and never stores a shortened or empty array.
C2_ShapeMismatchRaised ==
    (last_op.op = "set_parameters" /\ ~Covers(theta_desc, theta))
        => /\ result.err = "ShapeMismatch"
           /\ \A p \in DOMAIN theta_desc :
                 p \in DOMAIN params => params[p].len = theta_desc[p].N

\* C3: after set_parameters(theta) with len(theta) the total length of the
\* (non-overlapping) descriptor, every parameter p holds the elements of
\* theta at the indices of its range that theta has, in order, and nothing
\* else; all N_p of them when the range lies within theta.
C3_StoreHoldsSlices ==
    (/\ StoreJustSet
     /\ NonOverlapping(theta_desc)
     /\ Len(theta) = TotalLength(theta_desc))
        => \A p \in DOMAIN theta_desc :
              /\ p \in DOMAIN params
              /\ LET a == Store(params, theta)[p]
                     d == theta_desc[p]
                     have == {k \in 1 .. d.N : d.i0 + k <= Len(theta)}
                 IN  /\ Len(a) = Cardinality(have)
                     /\ \A k \in have : a[k] = theta[d.i0 + k]
                     /\ (d.i0 + d.N <= Len(theta) => Len(a) = d.N)

\* Two parameters that partition a theta of differing entries, just stored.
C3_Witness ==
    /\ last_op.op = "set_parameters"
    /\ DOMAIN theta_desc = Names
    /\ Len(theta) = TotalLength(theta_desc)
    /\ Covers(theta_desc, theta)
    /\ theta_desc["mass"].i0 > 0
    /\ theta[1] # theta[Len(theta)]
    /\ Len(Store(params, theta)["mass"]) = theta_desc["mass"].N

\* C4: after any sequence of set_parameters calls, the store is the one a
\* single set_parameters call with the last theta leaves in a freshly
\* constructed model.
C4_StoreRebuilt ==
    StoreJustSet
        => /\ Store(params, theta) = Store(set_parameters(<<>>, theta, theta_desc), theta)
           /\ aux = SetImfType(InitAux)

\* A second or later call that stored a non-empty array.
C4_Witness ==
    /\ last_op.op = "set_parameters"
    /\ again
    /\ \E p \in DOMAIN params : Len(Store(params, theta)[p]) >= 2

\* C8: writing an element of the caller's theta in place leaves every stored
\* array unchanged, and writing an element of a stored array in place leaves
\* theta unchanged.
C8_NoAliasing ==
    [][/\ last_op'.op = "mutate_theta" => Store(params', theta') = Store(params, theta)
       /\ last_op'.op = "mutate_stored" => theta' = theta]_vars

\* theta was written, after a call, at an index a stored array was read from.
C8_Witness ==
    /\ last_op.op = "mutate_theta"
    /\ \E p \in DOMAIN theta_desc :
          /\ p \in DOMAIN params
          /\ theta_desc[p].i0 < last_op.idx
          /\ last_op.idx <= theta_desc[p].i0 + Len(Store(params, theta)[p])
          /\ Store(params, theta)[p][last_op.idx - theta_desc[p].i0] # theta[last_op.idx]

\* ------------------------------------------------------------------------
\* Properties of lnprob_grad

\* The prediction of the specification: sum over the components c of
\* v[c] * A[c, j], for every column j.
MassWeighted(A, v) ==
    [j \in 1 .. A.nc |-> ISum([c \in 1 .. A.nr |-> A.at[c][j] * v[c]])]

\* The spectroscopy term of the specification with jitter 0: for component c
\* the sum over the masked bins of -(predicted - observed) / unc^2 * A[c, bin].
ExpectedSpecTerm(cs, mass, w) ==
    LET predicted == MassWeighted(cs, mass)
    IN  [c \in 1 .. cs.nr |->
            RSumOver([j \in 1 .. w.n |->
                         RScale(Rat(-(predicted[j] - w.spectrum[j]), w.unc[j] * w.unc[j]),
                                cs.at[c][j])],
                     {j \in 1 .. w.n : w.mask[j]})]

\* The photometry term of the specification: for component c the sum over all
\* filters of -(predicted - flux) / variance * A[c, filter].
ExpectedPhotTerm(cp, mass, f) ==
    LET predicted == MassWeighted(cp, mass)
    IN  [c \in 1 .. cp.nr |->
            RSumOver([k \in 1 .. f.n |->
                         RScale(Rat(-(predicted[k] - Flux(f.mags[k])),
                                    (Flux(f.mags[k]) * f.mags_unc[k])
                                    * (Flux(f.mags[k]) * f.mags_unc[k])),
                                cp.at[c][k])],
                     1 .. f.n)]

\* lnprob_grad was called with a synthesis engine and with a theta and a
\* descriptor that meet its precondition, on an interpreter whose dict.keys()
\* is a list.
GradCallMeetsPrecondition ==
    /\ last_op.op = "lnprob_grad"
    /\ DOMAIN theta_desc = {"mass"}
    /\ Len(theta) = theta_desc["mass"].N
    /\ frame.keys_is_list
    /\ frame.read

\* The range of mass in theta.
MassRange == PySlice(Len(theta), theta_desc["mass"].i0,
                     theta_desc["mass"].i0 + theta_desc["mass"].N)

\* C1: with the key set exactly {"mass"} and len(theta) the mass length the
\* call does not fail with the unsupported-parameter-set error; with any
\* other key present, or "mass" absent, it fails with that error.
C1_PreconditionEnforced ==
    last_op.op = "lnprob_grad"
        => /\ GradCallMeetsPrecondition => result.err # "ValueError:unsupported"
           /\ DOMAIN theta_desc # {"mass"} => result.err = "ValueError:unsupported"

\* C5: without a wavelength grid lnprob_grad completes without error and
\* returns the prior gradient, plus the photometry term if filters are present.
C5_NoWavelengthGrid ==
    (GradCallMeetsPrecondition /\ ~frame.obs.wave.has)
        => /\ result.err = "none"
           /\ result.grad =
                 IF frame.obs.filt.has
                 THEN AddInto(lnp_prior_grad(theta), MassRange,
                              ExpectedPhotTerm(frame.comp_phot, frame.mass, frame.obs.filt))
                 ELSE lnp_prior_grad(theta)

\* C6: on an observation with a wavelength grid, a nonzero jitter makes
\* lnprob_grad fail with the error 'gradients in jitter term not written';
\* with jitter 0 that error is not raised and the variance (unc + 0 * spectrum)^2
\* is computed.
C6_JitterError ==
    (GradCallMeetsPrecondition /\ frame.obs.wave.has)
        => /\ jitter.v # 0 => result.err = "ValueError:jitter"
           /\ jitter = IntZero => (result.err # "ValueError:jitter" /\ frame.line > 52)

\* Entry i of a source term g of the call: 0 when the term is absent, its one
\* entry when it has one.
TermAt(g, i) == IF Len(g) = 0 THEN RZero ELSE Pick(g, i)

\* C7: whenever a call that meets the precondition succeeds, it returns a
\* vector of len(theta) entries: the prior gradient, with the spectroscopy and
\* the photometry term of the call (the jitter term is empty) each added once
\* at the indices of the range [i0, i0 + N) of mass, and nothing added
\* elsewhere.
C7_GradientShape ==
    (GradCallMeetsPrecondition /\ result.err = "none")
        => LET d == theta_desc["mass"]
               prior == lnp_prior_grad(theta)
           IN  /\ Len(result.grad) = Len(theta)
               /\ \A k \in 1 .. Len(theta) :
                     result.grad[k] =
                        IF d.i0 < k /\ k <= d.i0 + d.N
                        THEN RAdd(RAdd(prior[k], TermAt(frame.gradp_spec, k - d.i0)),
                                  TermAt(frame.gradp_phot, k - d.i0))
                        ELSE prior[k]

\* A call succeeded with both a spectroscopy and a photometry term, for a
\* mass range that starts after the first entry of theta.
C7_Witness ==
    /\ GradCallMeetsPrecondition
    /\ result.err = "none"
    /\ frame.obs.wave.has
    /\ frame.obs.filt.has
    /\ theta_desc["mass"].i0 > 0
    /\ Len(result.grad) = 2
    /\ result.grad[1] = RZero
    /\ Len(frame.gradp_spec) = 1 /\ frame.gradp_spec[1] # RZero
    /\ Len(frame.gradp_phot) = 1 /\ frame.gradp_phot[1] # RZero
    /\ result.grad[2] \notin {RZero, frame.gradp_spec[1], frame.gradp_phot[1]}

\* C9: the photometry term is computed from the mass-weighted sum of the
\* per-component photometry: for component c it is the sum over all filters f
\* of -(predicted_f - flux_f) / variance_f * component_phot[c, f].
C9_PhotometryTerm ==
    (GradCallMeetsPrecondition /\ frame.obs.filt.has /\ frame.line > 71)
        => frame.gradp_phot = ExpectedPhotTerm(frame.comp_phot, frame.mass, frame.obs.filt)

\* C10: with a wavelength grid, no filters, jitter 0 and a zero prior
\* gradient, lnprob_grad returns for component c the sum over the masked bins
\* of -(predicted - observed) / unc^2 * component_spec[c, bin].
C10_SpectroscopyGradient ==
    (GradCallMeetsPrecondition /\ frame.obs.wave.has /\ ~frame.obs.filt.has /\ jitter = IntZero)
        => /\ result.err = "none"
           /\ result.grad =
                 AddInto(lnp_prior_grad(theta), MassRange,
                         ExpectedSpecTerm(frame.comp_spec, frame.mass, frame.obs.wave))

====
